---- MODULE Spec2Model ----
(***************************************************************************)
(* Lazily evaluated bandpass filter over a multichannel recording          *)
(* (spiketoolkit/preprocessing/bandpass_filter.py).                        *)
(*                                                                         *)
(* A chunk is a contiguous run of frames of the recording.  It is kept as  *)
(* the record [m, lo, n, filtered, win, dc]: m channels, n columns, column *)
(* j holding frame lo + j.  A filtered chunk remembers the window          *)
(* win = <<first frame, length>> that was transformed as a whole, because  *)
(* both filters are non-causal over the window they are given, and the     *)
(* gain dc the filter applied to the window's constant offset.             *)
(*                                                                         *)
(* Kernel gains are kept by their exact class: "zero" (0.0), "one" (1.0),  *)
(* "frac" (strictly between) and "nan".                                    *)
(***************************************************************************)
EXTENDS Integers, Sequences, FiniteSets, TLC

VARIABLES recording, args, self, ret, objs,
          pc, req, padded_chunk, filtered_padded_chunk, out, reads,
          fcall

vars == <<recording, args, self, ret, objs,
          pc, req, padded_chunk, filtered_padded_chunk, out, reads, fcall>>

viewVars == <<recording, args, self, ret, objs>>
callVars == <<pc, req, padded_chunk, filtered_padded_chunk, out, reads>>

----------------------------------------------------------------------------
(* Bounds of the model *)

NumFrames == 10000
SmallFrames == 20
SamplingFrequency == 30000
MaxN == 24

(* Program constants *)

padding == 3000
relwid == 3
DefaultFreqMin == 300
DefaultFreqMax == 6000
DefaultFreqWid == 1000
DefaultOrder == 3
DefaultChunkSize == 30000

(* erf(x) is exactly 1.0 in double precision from about 5.93 on *)
ErfSat == 6
(* root magnitudes are kept in thousandths: 1000 is the unit circle *)
UnitCircle == 1000

Threads == {1, 2}

Max(a, b) == IF a >= b THEN a ELSE b
Min(a, b) == IF a <= b THEN a ELSE b
Abs(a) == IF a < 0 THEN -a ELSE a

----------------------------------------------------------------------------
(* _create_filter_kernel *)

(* np.where(k_inds <= (N + 1) / 2, k_inds, k_inds - N) over arange(0, N) *)
k_inds(N) ==
    [k \in 0..(N - 1) |-> IF 2 * k <= N + 1 THEN k ELSE k - N]

(* class of erf(num / den), with IEEE division by zero *)
ErfClass(num, den) ==
    IF den = 0
    THEN IF num > 0 THEN "+1" ELSE IF num < 0 THEN "-1" ELSE "nan"
    ELSE LET n == IF den < 0 THEN -num ELSE num
             d == Abs(den)
         IN  IF n >= ErfSat * d THEN "+1"
             ELSE IF n <= -(ErfSat * d) THEN "-1"
             ELSE IF n = 0 THEN "0"
             ELSE IF n > 0 THEN "pos" ELSE "neg"

(* (1 + e) / 2 *)
HalfOnePlus(e) ==
    CASE e = "+1" -> "one"
      [] e = "-1" -> "zero"
      [] e = "nan" -> "nan"
      [] OTHER -> "frac"

(* (1 - e) / 2 *)
HalfOneMinus(e) ==
    CASE e = "+1" -> "zero"
      [] e = "-1" -> "one"
      [] e = "nan" -> "nan"
      [] OTHER -> "frac"

(* product of two gains *)
Mul(a, b) ==
    IF a = "nan" \/ b = "nan" THEN "nan"
    ELSE IF a = "zero" \/ b = "zero" THEN "zero"
    ELSE IF a = "one" THEN b
    ELSE IF b = "one" THEN a
    ELSE "frac"

(* np.sqrt: sqrt(0) = 0, sqrt(1) = 1, sqrt of a gain in (0,1) stays in (0,1) *)
Sqrt(a) ==
    CASE a = "zero" -> "zero"
      [] a = "one" -> "one"
      [] a = "frac" -> "frac"
      [] OTHER -> "nan"

(* (1 + erf(relwid * (absf - freq_min) / freq_min)) / 2, absf = |k| * fs / N *)
HighPassGain(k_ind, N, fs, freq_min) ==
    HalfOnePlus(ErfClass(relwid * (Abs(k_ind) * fs - freq_min * N), N * freq_min))

(* (1 - erf((absf - freq_max) / freq_wid)) / 2 *)
LowPassGain(k_ind, N, fs, freq_max, freq_wid) ==
    HalfOneMinus(ErfClass(Abs(k_ind) * fs - freq_max * N, N * freq_wid))

ApplyHighPass_mut(freq_min) == TRUE
(* if freq_min != 0 *)
ApplyHighPass(freq_min) == freq_min # 0

(* if freq_max != 0 *)
ApplyLowPass(freq_max) == freq_max # 0

DCBin_mut(k_ind) == FALSE
(* np.abs(k_inds) < 0.1 *)
DCBin(k_ind) == 10 * Abs(k_ind) < 1

(* the bins the np.where of the high-pass branch sets to 0 *)
ForcedZero(N, freq_min) ==
    IF ApplyHighPass(freq_min)
    THEN {k \in 0..(N - 1) : DCBin(k_inds(N)[k])}
    ELSE {}

_create_filter_kernel(N, fs, freq_min, freq_max, freq_wid) ==
    LET ki == k_inds(N)
        val0 == [k \in 0..(N - 1) |-> "one"]
        val1 == IF ApplyHighPass(freq_min)
                THEN [k \in 0..(N - 1) |->
                        IF DCBin(ki[k]) THEN "zero"
                        ELSE Mul(val0[k], HighPassGain(ki[k], N, fs, freq_min))]
                ELSE val0
        val2 == IF ApplyLowPass(freq_max)
                THEN [k \in 0..(N - 1) |->
                        Mul(val1[k], LowPassGain(ki[k], N, fs, freq_max, freq_wid))]
                ELSE val1
    IN  [k \in 0..(N - 1) |-> Sqrt(val2[k])]

----------------------------------------------------------------------------
(* BandpassFilterRecording.__init__ and bandpass_filter *)

NoCoef == [len |-> 0, roots |-> <<>>]

NoSelf ==
    [state |-> "none", _freq_min |-> 0, _freq_max |-> 0, _freq_wid |-> 0,
     _type |-> "", _order |-> 0, _chunk_size |-> 0,
     _b |-> NoCoef, _a |-> NoCoef,
     base_init |-> FALSE, is_filtered |-> FALSE, _kwargs |-> <<>>]

NoArgs ==
    [freq_min |-> 0, freq_max |-> 0, freq_wid |-> 0, filter_type |-> "",
     order |-> 0, chunk_size |-> 0, cache_to_file |-> FALSE, cache_chunks |-> FALSE]

(* what the caller may pass to bandpass_filter *)
ArgSet ==
    [freq_min : {DefaultFreqMin}, freq_max : {DefaultFreqMax},
     freq_wid : {DefaultFreqWid}, filter_type : {"fft", "butter", "median"},
     order : {DefaultOrder}, chunk_size : {DefaultChunkSize},
     cache_to_file : BOOLEAN, cache_chunks : BOOLEAN]

(* ss.butter(order, band, btype='bandpass'): it raises, or it returns 2*order+1  *)
(* numerator and denominator coefficients; the denominator is kept by the        *)
(* magnitudes of its 2*order roots, in thousandths                               *)
ButterDesigns(order) ==
    {[raised |-> TRUE, b |-> NoCoef, a |-> NoCoef]}
    \cup
    {[raised |-> FALSE,
      b |-> [len |-> 2 * order + 1, roots |-> <<>>],
      a |-> [len |-> 2 * order + 1,
             roots |-> [i \in 1..(2 * order) |-> IF i = 1 THEN r ELSE 900]]]
       : r \in {900, 999, 1000, 1100}}

IsStable_mut(a) == \A i \in DOMAIN a.roots : a.roots[i] <= UnitCircle
(* np.all(np.abs(np.roots(self._a)) < 1) *)
IsStable(a) == \A i \in DOMAIN a.roots : a.roots[i] < UnitCircle

(* FilterRecording.__init__(self, recording, chunk_size, cache_chunks, dtype) *)
FilterRecordingInit(s) == [s EXCEPT !.base_init = TRUE]

(* self._kwargs, the recording's own serialised dict aside *)
Kwargs(a) ==
    [freq_min |-> a.freq_min, freq_max |-> a.freq_max, freq_wid |-> a.freq_wid,
     filter_type |-> a.filter_type, order |-> a.order,
     chunk_size |-> a.chunk_size, cache_chunks |-> a.cache_chunks]

(* the object after __init__ ran; state "raised" when it raised on the way *)
__init__(a, design) ==
    LET s0 == [NoSelf EXCEPT !._freq_min = a.freq_min, !._freq_max = a.freq_max,
                             !._freq_wid = a.freq_wid, !._type = a.filter_type,
                             !._order = a.order, !._chunk_size = a.chunk_size]
        s1 == IF s0._type = "butter" /\ ~design.raised
              THEN [s0 EXCEPT !._b = design.b, !._a = design.a]
              ELSE s0
    IN  IF s0._type = "butter" /\ design.raised
        THEN [s0 EXCEPT !.state = "raised"]
        ELSE IF s0._type = "butter" /\ ~IsStable(s1._a)
        THEN [s1 EXCEPT !.state = "raised"]
        ELSE [FilterRecordingInit(s1) EXCEPT !.is_filtered = TRUE,
                                             !._kwargs = <<Kwargs(a)>>,
                                             !.state = "built"]

AssertCacheFlags_mut(cache_to_file, cache_chunks) == TRUE
(* if cache_to_file: assert not cache_chunks *)
AssertCacheFlags(cache_to_file, cache_chunks) ==
    cache_to_file => ~cache_chunks

(* one call of bandpass_filter(recording, ...) *)
bandpass_filter(a, design) ==
    /\ args = NoArgs /\ ret = "none"
    /\ args' = a
    /\ IF ~AssertCacheFlags(a.cache_to_file, a.cache_chunks)
       THEN /\ ret' = "error"
            /\ UNCHANGED <<self, objs>>
       ELSE LET s == __init__(a, design)
            IN  /\ self' = s
                /\ IF s.state = "raised"
                   THEN /\ ret' = "error"
                        /\ objs' = [objs EXCEPT !.bpf = @ + 1]
                   ELSE IF a.cache_to_file
                   THEN /\ ret' = "cache"
                        /\ objs' = [objs EXCEPT !.bpf = @ + 1, !.cache = @ + 1]
                   ELSE /\ ret' = "view"
                        /\ objs' = [objs EXCEPT !.bpf = @ + 1]
    /\ UNCHANGED <<recording, callVars, fcall>>

----------------------------------------------------------------------------
(* filter_chunk and _do_filter *)

NoChunk ==
    [m |-> 0, lo |-> 0, n |-> 0, filtered |-> FALSE, win |-> <<0, 0>>, dc |-> "one"]

NoReq == [start_frame |-> 0, end_frame |-> 0, channel_ids |-> <<>>]

(* the value in column j of a chunk: which frame, and filtered over which window *)
Col(ch, j) ==
    [frame |-> ch.lo + j, filtered |-> ch.filtered, win |-> ch.win, dc |-> ch.dc]

(* self._read_chunk(i1, i2, channel_ids): the raw frames of [i1, i2), clipped to *)
(* the recording's valid frame range [0, num_frames)                             *)
_read_chunk(rec, i1, i2, channel_ids) ==
    LET a == Max(i1, 0)
        b == Min(i2, rec.num_frames)
    IN  [m |-> Len(channel_ids), lo |-> a, n |-> Max(b - a, 0),
         filtered |-> FALSE, win |-> <<0, 0>>, dc |-> "one"]

(* np.fft.rfft(chunk2): N real samples give N // 2 + 1 bins *)
RfftLen(N) == (N \div 2) + 1

(* np.fft.irfft(chunk_fft) without n: m bins give 2 * (m - 1) samples *)
IrfftLen(m) == 2 * (m - 1)

(* ss.filtfilt pads each end by 3 * max(len(a), len(b)) samples and needs more input than that *)
FiltfiltPadlen(s) == 3 * Max(s._a.len, s._b.len)

NoFilter == [ok |-> FALSE, chunk |-> NoChunk]

(* lines 50-55: the kernel for the chunk's length, cut to the one-sided spectrum *)
TruncatedKernel(s, fs, N) ==
    LET full == _create_filter_kernel(N, fs, s._freq_min, s._freq_max, s._freq_wid)
    IN  [k \in 0..(Min(RfftLen(N), N) - 1) |-> full[k]]

_do_filter_mut(s, fs, chunk) ==
    [ok |-> TRUE, chunk |-> chunk]
(* ok is FALSE when the call raises; dc is the gain the filter applies to a *)
(* constant offset: kernel[0] in 'fft' mode, 0 for a Butterworth bandpass   *)
_do_filter(s, fs, chunk) ==
    LET N == chunk.n
    IN  IF s._type = "fft"
        THEN LET m == RfftLen(N)
                 kernel == TruncatedKernel(s, fs, N)
                 klen == Min(m, N)
                 n == IrfftLen(m)
             IN  IF klen # m \/ n < 1
                 THEN NoFilter
                 ELSE [ok |-> TRUE,
                       chunk |-> [m |-> chunk.m, lo |-> chunk.lo, n |-> n,
                                  filtered |-> TRUE, win |-> <<chunk.lo, N>>,
                                  dc |-> kernel[0]]]
        ELSE IF s._type = "butter"
        THEN IF N > FiltfiltPadlen(s)
             THEN [ok |-> TRUE,
                   chunk |-> [m |-> chunk.m, lo |-> chunk.lo, n |-> N,
                              filtered |-> TRUE, win |-> <<chunk.lo, N>>,
                              dc |-> "zero"]]
             ELSE NoFilter
        ELSE NoFilter

SelfAfterFilter_mut(s, chunk) == [s EXCEPT !._chunk_size = chunk.n]
(* the view after filter_chunk called _do_filter: neither assigns an attribute *)
SelfAfterFilter(s, chunk) == s

(* a slice bound of a[:, i:j] on n columns *)
SliceIndex(i, n) == IF i < 0 THEN Max(i + n, 0) ELSE Min(i, n)

(* ch[:, a:b] *)
Slice(ch, a, b) ==
    LET a1 == SliceIndex(a, ch.n)
        b1 == SliceIndex(b, ch.n)
    IN  [m |-> ch.m, lo |-> ch.lo + a1, n |-> Max(b1 - a1, 0),
         filtered |-> ch.filtered, win |-> ch.win, dc |-> ch.dc]

(* i1 = start_frame - padding, i2 = end_frame + padding *)
I1(r) == r.start_frame - padding
I2(r) == r.end_frame + padding

(* filtered_padded_chunk[:, start_frame - i1:end_frame - i1] *)
Crop(r, fpc) == Slice(fpc, r.start_frame - I1(r), r.end_frame - I1(r))

(* the frame numbers requests start and end at *)
FramePoints(rec) ==
    IF rec.num_frames <= SmallFrames
    THEN {0, 1, SmallFrames}
    ELSE {0, 3000, 5000, 6999, NumFrames}

ChannelSubsets == {<<0>>, <<0, 1>>}

(* the valid requests [start_frame, end_frame) on a recording *)
Requests(rec) ==
    {r \in [start_frame : FramePoints(rec), end_frame : FramePoints(rec),
            channel_ids : ChannelSubsets] :
        0 <= r.start_frame /\ r.start_frame < r.end_frame
                           /\ r.end_frame <= rec.num_frames}

(* filter_chunk, lines 36-39: pad the window and read it *)
FilterChunkRead(t, r) ==
    /\ self.state = "built" /\ pc[t] = "idle"
    /\ req' = [req EXCEPT ![t] = r]
    /\ padded_chunk' = [padded_chunk EXCEPT
                           ![t] = _read_chunk(recording, I1(r), I2(r), r.channel_ids)]
    /\ reads' = [reads EXCEPT ![t] = 1]
    /\ pc' = [pc EXCEPT ![t] = "read"]
    /\ UNCHANGED <<viewVars, filtered_padded_chunk, out, fcall>>

(* filter_chunk, line 40 *)
FilterChunkFilter(t) ==
    /\ pc[t] = "read"
    /\ LET f == _do_filter(self, recording.sampling_frequency, padded_chunk[t])
       IN  /\ filtered_padded_chunk' = [filtered_padded_chunk EXCEPT ![t] = f.chunk]
           /\ pc' = [pc EXCEPT ![t] = IF f.ok THEN "filtered" ELSE "failed"]
    /\ self' = SelfAfterFilter(self, padded_chunk[t])
    /\ UNCHANGED <<recording, args, ret, objs, req, padded_chunk, out, reads, fcall>>

(* filter_chunk, line 41 *)
FilterChunkCrop(t) ==
    /\ pc[t] = "filtered"
    /\ out' = [out EXCEPT ![t] = Crop(req[t], filtered_padded_chunk[t])]
    /\ pc' = [pc EXCEPT ![t] = "done"]
    /\ UNCHANGED <<viewVars, req, padded_chunk, filtered_padded_chunk, reads, fcall>>

(* the caller has the result, or the exception, and may call again *)
FilterChunkReturn(t) ==
    /\ pc[t] \in {"done", "failed"}
    /\ pc' = [pc EXCEPT ![t] = "idle"]
    /\ req' = [req EXCEPT ![t] = NoReq]
    /\ padded_chunk' = [padded_chunk EXCEPT ![t] = NoChunk]
    /\ filtered_padded_chunk' = [filtered_padded_chunk EXCEPT ![t] = NoChunk]
    /\ out' = [out EXCEPT ![t] = NoChunk]
    /\ reads' = [reads EXCEPT ![t] = 0]
    /\ UNCHANGED <<viewVars, fcall>>

(* filter_chunk run alone, start to end *)
filter_chunk(s, rec, r) ==
    LET pch == _read_chunk(rec, I1(r), I2(r), r.channel_ids)
        f == _do_filter(s, rec.sampling_frequency, pch)
    IN  [ok |-> f.ok, out |-> IF f.ok THEN Crop(r, f.chunk) ELSE NoChunk]

----------------------------------------------------------------------------
(* The pure functions, called on their own *)

NoCall ==
    [fn |-> "none", N |-> 0, M |-> 0, fs |-> 0, freq_min |-> 0, freq_max |-> 0,
     freq_wid |-> 0, type |-> "", ok |-> FALSE, shape |-> <<0, 0>>,
     kernel |-> <<>>, forced |-> {}]

SampFreqs == {SamplingFrequency, 2400}
FreqMins == {0, DefaultFreqMin}
FreqMaxs == {0, DefaultFreqMax}
FreqWids == {0, DefaultFreqWid}

KernelCall(N, fs, fmin, fmax, fwid) ==
    /\ fcall = NoCall
    /\ fcall' = [NoCall EXCEPT !.fn = "kernel", !.N = N, !.fs = fs,
                               !.freq_min = fmin, !.freq_max = fmax,
                               !.freq_wid = fwid, !.ok = TRUE,
                               !.shape = <<1, N>>,
                               !.kernel = _create_filter_kernel(N, fs, fmin, fmax, fwid),
                               !.forced = ForcedZero(N, fmin)]
    /\ UNCHANGED <<viewVars, callVars>>

DoFilterCall(M, N, fs, a, design) ==
    LET s == __init__(a, design)
        f == _do_filter(s, fs, [NoChunk EXCEPT !.m = M, !.n = N])
    IN  /\ fcall = NoCall
        /\ s.state = "built"
        /\ fcall' = [NoCall EXCEPT !.fn = "do_filter", !.N = N, !.M = M, !.fs = fs,
                                   !.freq_min = a.freq_min, !.freq_max = a.freq_max,
                                   !.freq_wid = a.freq_wid, !.type = a.filter_type,
                                   !.ok = f.ok,
                                   !.shape = <<f.chunk.m, f.chunk.n>>,
                                   !.kernel = IF a.filter_type = "fft"
                                              THEN TruncatedKernel(s, fs, N) ELSE <<>>,
                                   !.forced = IF a.filter_type = "fft"
                                              THEN ForcedZero(N, a.freq_min) ELSE {}]
        /\ UNCHANGED <<viewVars, callVars>>

FilterArgSet ==
    [freq_min : FreqMins, freq_max : FreqMaxs, freq_wid : {DefaultFreqWid},
     filter_type : {"fft", "butter"}, order : {1, DefaultOrder},
     chunk_size : {DefaultChunkSize}, cache_to_file : {FALSE}, cache_chunks : {FALSE}]

----------------------------------------------------------------------------

Init ==
    /\ recording \in [num_frames : {SmallFrames, NumFrames},
                      sampling_frequency : {SamplingFrequency}]
    /\ args = NoArgs
    /\ self = NoSelf
    /\ ret = "none"
    /\ objs = [bpf |-> 0, cache |-> 0]
    /\ pc = [t \in Threads |-> "idle"]
    /\ req = [t \in Threads |-> NoReq]
    /\ padded_chunk = [t \in Threads |-> NoChunk]
    /\ filtered_padded_chunk = [t \in Threads |-> NoChunk]
    /\ out = [t \in Threads |-> NoChunk]
    /\ reads = [t \in Threads |-> 0]
    /\ fcall = NoCall

Next ==
    \/ \E a \in ArgSet : \E design \in ButterDesigns(a.order) : bandpass_filter(a, design)
    \/ \E t \in Threads : \E r \in Requests(recording) : FilterChunkRead(t, r)
    \/ \E t \in Threads : FilterChunkFilter(t)
    \/ \E t \in Threads : FilterChunkCrop(t)
    \/ \E t \in Threads : FilterChunkReturn(t)

Spec == Init /\ [][Next]_vars

NextFilter ==
    \/ \E N \in 1..MaxN : \E fs \in SampFreqs : \E fmin \in FreqMins :
         \E fmax \in FreqMaxs : \E fwid \in FreqWids :
           KernelCall(N, fs, fmin, fmax, fwid)
    \/ \E M \in 1..2 : \E i \in 0..(MaxN - 1) : \E fs \in SampFreqs :
         \E a \in FilterArgSet : \E design \in ButterDesigns(a.order) :
           DoFilterCall(M, MaxN - i, fs, a, design)

SpecFilter == Init /\ [][NextFilter]_vars

----------------------------------------------------------------------------
(* Properties *)

Len_(r) == r.end_frame - r.start_frame

(* C1: every completed filter_chunk call for a valid request [start, end)  *)
(* returns exactly end - start samples for each requested channel, also    *)
(* when the padded read was clipped to the recording's frame range.        *)
C1_OutputLength ==
    \A t \in Threads :
        pc[t] = "done" =>
            /\ out[t].n = Len_(req[t])
            /\ out[t].m = Len(req[t].channel_ids)

(* C2: every completed filter_chunk call returns, in column j, the         *)
(* filtered value of source frame start + j, for every j below end - start,*)
(* also when the padded read was clipped.                                  *)
C2_CropToRequested ==
    \A t \in Threads :
        pc[t] = "done" =>
            \A j \in 0..(Len_(req[t]) - 1) :
                /\ j < out[t].n
                /\ Col(out[t], j).filtered
                /\ Col(out[t], j).frame = req[t].start_frame + j

(* C3: a 'butter' design with a denominator root of magnitude >= 1 makes   *)
(* construction fail before the base view is initialised (no view is       *)
(* returned, is_filtered and _kwargs are not set, no filtering call        *)
(* happens), and every constructed 'butter' view has all its roots         *)
(* strictly inside the unit circle.                                        *)
C3_UnstableFailsAtConstruction ==
    /\ (/\ self._type = "butter"
        /\ \E i \in DOMAIN self._a.roots : self._a.roots[i] >= UnitCircle)
       => /\ self.state = "raised"
          /\ ret = "error"
          /\ ~self.base_init
          /\ ~self.is_filtered
          /\ self._kwargs = <<>>
          /\ \A t \in Threads : pc[t] = "idle" /\ reads[t] = 0
    /\ (self.state = "built" /\ self._type = "butter")
       => /\ self._a.len > 0
          /\ \A i \in DOMAIN self._a.roots : self._a.roots[i] < UnitCircle

C3_Witness ==
    /\ self.state = "raised"
    /\ ret = "error"
    /\ \E i \in DOMAIN self._a.roots : self._a.roots[i] >= UnitCircle

(* C4: bandpass_filter called with cache_to_file and cache_chunks both     *)
(* true fails before any BandpassFilterRecording or CacheRecordingExtractor*)
(* is constructed; with any other combination the view's constructor runs, *)
(* and a returned result is the whole-recording cache exactly when         *)
(* cache_to_file is true.                                                  *)
C4_CacheFlags ==
    /\ (args.cache_to_file /\ args.cache_chunks)
       => /\ ret = "error"
          /\ objs.bpf = 0 /\ objs.cache = 0
          /\ self = NoSelf
    /\ (args # NoArgs /\ ~(args.cache_to_file /\ args.cache_chunks))
       => /\ objs.bpf = 1
          /\ ret \in {"error", "view", "cache"}
          /\ (ret # "error") => ((ret = "cache") <=> args.cache_to_file)
          /\ (objs.cache = 1) <=> (ret = "cache")

C4_Witness ==
    /\ args.cache_to_file /\ args.cache_chunks
    /\ ret = "error"

(* what a completed call returned for frame f of its requested range *)
ReturnedFor(t, f) ==
    LET j == f - req[t].start_frame
    IN  IF j < out[t].n THEN <<Col(out[t], j)>> ELSE <<>>

(* C5: two completed filter_chunk calls on the same view return identical  *)
(* filtered values for every frame in the intersection of their requested  *)
(* ranges.                                                                 *)
C5_OverlapIdentical ==
    \A t1 \in Threads : \A t2 \in Threads :
        (pc[t1] = "done" /\ pc[t2] = "done") =>
            \A f \in Max(req[t1].start_frame, req[t2].start_frame)
                    ..(Min(req[t1].end_frame, req[t2].end_frame) - 1) :
                ReturnedFor(t1, f) = ReturnedFor(t2, f)

IsKernelCall == fcall.fn = "kernel" \/ (fcall.fn = "do_filter" /\ fcall.type = "fft")

(* C6: whenever freq_min != 0, bin 0 of the kernel is exactly 0, in the    *)
(* kernel _create_filter_kernel returns and in the truncated kernel        *)
(* _do_filter multiplies with, and bin 0 is the only bin forced to zero.   *)
C6_DCBinZero ==
    (IsKernelCall /\ fcall.freq_min # 0) =>
        /\ fcall.kernel[0] = "zero"
        /\ fcall.forced = {0}

C6_Witness ==
    /\ fcall.fn = "do_filter" /\ fcall.type = "fft"
    /\ fcall.freq_min # 0 /\ fcall.freq_max # 0
    /\ fcall.N >= 2
    /\ fcall.kernel[0] = "zero"
    /\ fcall.kernel[1] # "zero"

(* C7, as claimed: for freq_min = freq_max = 0 the kernel is 1 at every    *)
(* bin other than bin 0, and bin 0 is forced to 0.                         *)
C7_AllPassDCForced ==
    (fcall.fn = "kernel" /\ fcall.freq_min = 0 /\ fcall.freq_max = 0) =>
        /\ \A k \in 1..(fcall.N - 1) : fcall.kernel[k] = "one"
        /\ fcall.kernel[0] = "zero"

(* C7, amended: for freq_min = freq_max = 0 the kernel is 1 at every bin,  *)
(* bin 0 included, and no bin is forced to zero.                           *)
C7_AllPassEverywhere ==
    (fcall.fn = "kernel" /\ fcall.freq_min = 0 /\ fcall.freq_max = 0) =>
        /\ \A k \in 0..(fcall.N - 1) : fcall.kernel[k] = "one"
        /\ fcall.forced = {}

C7_Witness ==
    /\ fcall.fn = "kernel" /\ fcall.freq_min = 0 /\ fcall.freq_max = 0
    /\ fcall.N >= 2
    /\ fcall.kernel[0] = "one"

(* C8: _do_filter returns an array of the shape of its input chunk, M      *)
(* channels by N samples, in both modes and for every N >= 1.              *)
C8_SameShape ==
    fcall.fn = "do_filter" =>
        /\ fcall.ok
        /\ fcall.shape = <<fcall.M, fcall.N>>

(* C9: no step of a filtering call changes a field of the constructed      *)
(* view, and however two calls interleave, a call that ends has issued     *)
(* exactly one raw read and ends as it would when run alone: with the same *)
(* result, or failing.                                                     *)
C9_NoSharedState ==
    [][/\ (self.state = "built") => (self' = self)
       /\ \A t \in Threads :
            (pc'[t] \in {"done", "failed"}) =>
                LET alone == filter_chunk(self', recording', req'[t])
                IN  /\ reads'[t] = 1
                    /\ (pc'[t] = "done") <=> alone.ok
                    /\ alone.ok => (out'[t] = alone.out)]_vars

C9_Witness ==
    /\ pc[1] = "done" /\ pc[2] = "read"
    /\ req[1].start_frame < req[2].end_frame
    /\ req[2].start_frame < req[1].end_frame
    /\ req[1] # req[2]

(* C10: with a filter_type that is neither 'fft' nor 'butter' construction *)
(* succeeds without designing coefficients, and every filter_chunk call    *)
(* fails after its one raw read, never reaching a filtered chunk or a      *)
(* result.                                                                 *)
C10_UnknownTypeFailsAtFirstCall ==
    (args # NoArgs /\ args.filter_type \notin {"fft", "butter"}) =>
        /\ ~(args.cache_to_file /\ args.cache_chunks) =>
              /\ self.state = "built"
              /\ self._b = NoCoef /\ self._a = NoCoef
        /\ \A t \in Threads :
              /\ pc[t] \notin {"filtered", "done"}
              /\ pc[t] = "failed" =>
                    /\ reads[t] = 1
                    /\ filtered_padded_chunk[t] = NoChunk
                    /\ out[t] = NoChunk

C10_Witness ==
    /\ self.state = "built"
    /\ self._type \notin {"fft", "butter"}
    /\ pc[1] = "failed" /\ reads[1] = 1

====
